---- MODULE Spec2Model ----
(***************************************************************************)
(* lockfreekit::MPMCQueue<T, static_capacity> (src/lockfreekit/            *)
(* mpmc_queue.hpp), instantiated with T = int as in src/tests/             *)
(* mpmc_queue.cpp.                                                         *)
(*                                                                         *)
(* Every access to an atomic (head_, tail_, Slot::sequence) is one step of *)
(* the calling thread; so is the plain access to Slot::value.  Atomics are *)
(* modelled sequentially consistent.  Two threads that are both between    *)
(* their reservation CAS and their release-store on one slot race on       *)
(* Slot::value; the race is modelled as the two accesses in either order.  *)
(*                                                                         *)
(* Values passed to enqueue are the call numbers 1, 2, 3, ... so that a    *)
(* lost or duplicated value can be told apart from an equal one.           *)
(***************************************************************************)
EXTENDS Integers, Sequences, FiniteSets, TLC

\* ---- bounds of the model ------------------------------------------------
NumThreads == 2
MaxCap     == 3
MaxCalls   == 5
MaxClears  == 1
\* calls made in the runs that follow the positions round the slot array
MaxWrapCalls == 6
\* calls made in the single-threaded runs
MaxSeqCalls  == 12
\* capacities and candidate positions of the index probes
MaxIndexCap  == 8
MaxIndexPos  == 64

Threads == 1..NumThreads

\* T{} for T = int: the value a Slot holds before anything is written to it.
DefaultT == 0
\* marker in the history `taken` of a dequeue that has reserved its position
\* and has not returned yet
InFlight == DefaultT - 1

VARIABLES
    phase,            \* "new" | "ready" | "failed" (constructor threw)
    requested,        \* the capacity handed to the constructor
    static_capacity,  \* template parameter; 0 = dynamic-capacity variant
    capacity_,        \* member capacity_
    head_, tail_,     \* the two atomic counters
    sequence,         \* Slot::sequence of every slot, indexed 0..capacity-1
    value,            \* Slot::value of every slot
    pc,               \* per thread: where it is inside enqueue / dequeue
    pos,              \* per thread: local `pos` (0 outside a call)
    arg,              \* per thread: the `value` argument of enqueue
    val,              \* per thread: local `T value` of dequeue (line 77);
                      \* the value returned is recorded in `taken`
    last,             \* per thread: outcome of its last returned call
    calls,            \* history: number of calls started so far
    clears,           \* history: number of thread_unsafe_clear calls
    epochBase,        \* history: `calls` at the last thread_unsafe_clear
    reserved,         \* history: values in the order their tail CAS won
    accepted,         \* history: values whose enqueue returned true
    taken,            \* history: taken[p+1] = value returned by the dequeue
                      \*          that won head position p (InFlight before)
    startAcc,         \* history, per thread: `accepted` when its dequeue began
    budget,           \* history: number of calls the callers make in all
    quiet,            \* history, per thread: no enqueue or dequeue has been
                      \*          in flight since its approx_size began
    sizeOut,          \* the result of the last approx_size call returned
    probe             \* <<pos, index>> of the last buffer_at(pos) probed

queueVars == <<phase, requested, static_capacity, capacity_, head_, tail_,
               sequence, value>>
localVars == <<pc, pos, arg, val, last>>
histVars  == <<calls, clears, epochBase, reserved, accepted, taken, startAcc>>
auxVars   == <<budget, quiet, sizeOut, probe>>
vars      == <<queueVars, localVars, histVars, auxVars>>

\* ---- pure helpers ---------------------------------------------------------

RECURSIVE BitAnd(_, _)
\* a & b on size_t
BitAnd(a, b) ==
    IF a = 0 \/ b = 0 THEN 0
    ELSE 2 * BitAnd(a \div 2, b \div 2)
         + (IF a % 2 = 1 /\ b % 2 = 1 THEN 1 ELSE 0)

\* MPMCQueue::capacity()
capacity ==
    IF static_capacity > 0 THEN static_capacity ELSE capacity_

\* buffer_at with the capacity itself as the mask
buffer_atMaskOffByOne(p) ==
    IF static_capacity > 0
    THEN IF BitAnd(static_capacity, static_capacity - 1) = 0
         THEN BitAnd(p, static_capacity)
         ELSE p % static_capacity
    ELSE p % capacity_

\* MPMCQueue::buffer_at(pos): the index of the slot it returns
buffer_at(p) ==
    IF static_capacity > 0
    THEN IF BitAnd(static_capacity, static_capacity - 1) = 0
         THEN BitAnd(p, static_capacity - 1)
         ELSE p % static_capacity
    ELSE p % capacity_

\* the slots as the constructors leave them: sequence of slot i is i
InitialSequence(c) == [i \in 0..(c - 1) |-> i]
InitialValue(c)    == [i \in 0..(c - 1) |-> DefaultT]

\* ---- construction --------------------------------------------------------

InitState ==
    /\ phase = "new"
    /\ requested = 0
    /\ static_capacity = 0
    /\ capacity_ = 0
    /\ head_ = 0
    /\ tail_ = 0
    /\ sequence = InitialSequence(0)
    /\ value = InitialValue(0)
    /\ pc = [t \in Threads |-> "idle"]
    /\ pos = [t \in Threads |-> 0]
    /\ arg = [t \in Threads |-> DefaultT]
    /\ val = [t \in Threads |-> DefaultT]
    /\ last = [t \in Threads |-> "none"]
    /\ calls = 0
    /\ clears = 0
    /\ epochBase = 0
    /\ reserved = <<>>
    /\ accepted = {}
    /\ taken = <<>>
    /\ startAcc = [t \in Threads |-> {}]
    /\ quiet = [t \in Threads |-> FALSE]
    /\ sizeOut = 0
    /\ probe = <<0, 0>>

\* the callers make MaxCalls calls in all
Init ==
    /\ InitState
    /\ budget = MaxCalls

\* ConstructDynamic without the `capacity_ < 1` test
ConstructDynamicUnchecked(c) ==
    /\ phase = "new"
    /\ requested' = c
    /\ static_capacity' = 0
    /\ phase' = "ready"
    /\ capacity_' = c
    /\ sequence' = InitialSequence(c)
    /\ value' = InitialValue(c)
    /\ UNCHANGED <<head_, tail_, localVars, histVars>>
    /\ UNCHANGED auxVars

\* explicit MPMCQueue(size_t capacity) requires(static_capacity == 0)
ConstructDynamic(c) ==
    /\ phase = "new"
    /\ requested' = c
    /\ static_capacity' = 0
    /\ IF c < 1
       THEN /\ phase' = "failed"           \* throw std::invalid_argument
            /\ UNCHANGED <<capacity_, sequence, value>>
       ELSE /\ phase' = "ready"
            /\ capacity_' = c
            /\ sequence' = InitialSequence(c)
            /\ value' = InitialValue(c)
    /\ UNCHANGED <<head_, tail_, localVars, histVars>>
    /\ UNCHANGED auxVars

\* constexpr MPMCQueue() requires(static_capacity > 0)
ConstructStatic(c) ==
    /\ phase = "new"
    /\ c > 0
    /\ requested' = c
    /\ static_capacity' = c
    /\ capacity_' = c
    /\ phase' = "ready"
    /\ sequence' = InitialSequence(c)
    /\ value' = InitialValue(c)
    /\ UNCHANGED <<head_, tail_, localVars, histVars>>
    /\ UNCHANGED auxVars

\* ---- enqueue -------------------------------------------------------------

\* bool enqueue(const T& value): the call and `pos = tail_.load()`
EnqueueStart(t) ==
    /\ phase = "ready"
    /\ pc[t] = "idle"
    /\ calls < budget
    /\ calls' = calls + 1
    /\ arg' = [arg EXCEPT ![t] = calls + 1]
    /\ pos' = [pos EXCEPT ![t] = tail_]
    /\ pc' = [pc EXCEPT ![t] = "e_seq"]
    /\ UNCHANGED <<queueVars, val, last, clears, epochBase, reserved,
                   accepted, taken, startAcc>>
    /\ quiet' = [u \in Threads |-> FALSE]
    /\ UNCHANGED <<budget, sizeOut, probe>>

\* diff of enqueue: sequence of the slot of `pos` minus `pos`, as ptrdiff_t
EnqueueDiff(t) == sequence[buffer_at(pos[t])] - pos[t]

\* sequence load, diff == 0: go on to the CAS on tail_
EnqueueSlotFree(t) ==
    /\ pc[t] = "e_seq"
    /\ EnqueueDiff(t) = 0
    /\ pc' = [pc EXCEPT ![t] = "e_cas"]
    /\ UNCHANGED <<queueVars, pos, arg, val, last, histVars>>
    /\ UNCHANGED auxVars

\* EnqueueFull with `else` in place of `else if (diff < 0)`
EnqueueFullOnAnyMismatch(t) ==
    /\ pc[t] = "e_seq"
    /\ EnqueueDiff(t) # 0
    /\ pc' = [pc EXCEPT ![t] = "idle"]
    /\ last' = [last EXCEPT ![t] = "false"]
    /\ pos' = [pos EXCEPT ![t] = 0]
    /\ arg' = [arg EXCEPT ![t] = DefaultT]
    /\ UNCHANGED <<queueVars, val, histVars>>
    /\ UNCHANGED auxVars

\* EnqueueFull with `diff <= 0` in place of `diff < 0`
EnqueueFullOnFreeSlot(t) ==
    /\ pc[t] = "e_seq"
    /\ EnqueueDiff(t) <= 0
    /\ pc' = [pc EXCEPT ![t] = "idle"]
    /\ last' = [last EXCEPT ![t] = "false"]
    /\ pos' = [pos EXCEPT ![t] = 0]
    /\ arg' = [arg EXCEPT ![t] = DefaultT]
    /\ UNCHANGED <<queueVars, val, histVars>>
    /\ UNCHANGED auxVars

\* sequence load, diff < 0: return false
EnqueueFull(t) ==
    /\ pc[t] = "e_seq"
    /\ EnqueueDiff(t) < 0
    /\ pc' = [pc EXCEPT ![t] = "idle"]
    /\ last' = [last EXCEPT ![t] = "false"]
    /\ pos' = [pos EXCEPT ![t] = 0]
    /\ arg' = [arg EXCEPT ![t] = DefaultT]
    /\ UNCHANGED <<queueVars, val, histVars>>
    /\ UNCHANGED auxVars

\* sequence load, diff > 0: go on to reload tail_
EnqueueBehind(t) ==
    /\ pc[t] = "e_seq"
    /\ EnqueueDiff(t) > 0
    /\ pc' = [pc EXCEPT ![t] = "e_reload"]
    /\ UNCHANGED <<queueVars, pos, arg, val, last, histVars>>
    /\ UNCHANGED auxVars

\* pos = tail_.load() of the diff > 0 branch
EnqueueReload(t) ==
    /\ pc[t] = "e_reload"
    /\ pos' = [pos EXCEPT ![t] = tail_]
    /\ pc' = [pc EXCEPT ![t] = "e_seq"]
    /\ UNCHANGED <<queueVars, arg, val, last, histVars>>
    /\ UNCHANGED auxVars

\* tail_.compare_exchange_weak(pos, pos + 1) succeeds
EnqueueCasWin(t) ==
    /\ pc[t] = "e_cas"
    /\ tail_ = pos[t]
    /\ tail_' = pos[t] + 1
    /\ reserved' = Append(reserved, arg[t])
    /\ pc' = [pc EXCEPT ![t] = "e_write"]
    /\ UNCHANGED <<phase, requested, static_capacity, capacity_, head_,
                   sequence, value, pos, arg, val, last, calls, clears,
                   epochBase, accepted, taken, startAcc>>
    /\ UNCHANGED auxVars

\* tail_.compare_exchange_weak(pos, pos + 1) fails (tail_ differs, or
\* spuriously): pos receives the value of tail_, the loop goes round
EnqueueCasFail(t) ==
    /\ pc[t] = "e_cas"
    /\ pos' = [pos EXCEPT ![t] = tail_]
    /\ pc' = [pc EXCEPT ![t] = "e_seq"]
    /\ UNCHANGED <<queueVars, arg, val, last, histVars>>
    /\ UNCHANGED auxVars

\* slot.value = value
EnqueueWrite(t) ==
    /\ pc[t] = "e_write"
    /\ value' = [value EXCEPT ![buffer_at(pos[t])] = arg[t]]
    /\ pc' = [pc EXCEPT ![t] = "e_store"]
    /\ UNCHANGED <<phase, requested, static_capacity, capacity_, head_, tail_,
                   sequence, pos, arg, val, last, histVars>>
    /\ UNCHANGED auxVars

\* slot.sequence.store(pos + 1); return true
EnqueuePublish(t) ==
    /\ pc[t] = "e_store"
    /\ sequence' = [sequence EXCEPT ![buffer_at(pos[t])] = pos[t] + 1]
    /\ accepted' = accepted \cup {arg[t]}
    /\ pc' = [pc EXCEPT ![t] = "idle"]
    /\ last' = [last EXCEPT ![t] = "true"]
    /\ pos' = [pos EXCEPT ![t] = 0]
    /\ arg' = [arg EXCEPT ![t] = DefaultT]
    /\ UNCHANGED <<phase, requested, static_capacity, capacity_, head_, tail_,
                   value, val, calls, clears, epochBase, reserved,
                   taken, startAcc>>
    /\ UNCHANGED auxVars

\* ---- dequeue -------------------------------------------------------------

\* std::optional<T> dequeue(): the call and `pos = head_.load()`
DequeueStart(t) ==
    /\ phase = "ready"
    /\ pc[t] = "idle"
    /\ calls < budget
    /\ calls' = calls + 1
    /\ pos' = [pos EXCEPT ![t] = head_]
    /\ startAcc' = [startAcc EXCEPT ![t] = accepted]
    /\ pc' = [pc EXCEPT ![t] = "d_seq"]
    /\ UNCHANGED <<queueVars, arg, val, last, clears, epochBase, reserved,
                   accepted, taken>>
    /\ quiet' = [u \in Threads |-> FALSE]
    /\ UNCHANGED <<budget, sizeOut, probe>>

\* diff of dequeue: sequence of the slot of `pos` minus `pos + 1`
DequeueDiff(t) == sequence[buffer_at(pos[t])] - (pos[t] + 1)

\* sequence load, diff == 0: go on to the CAS on head_
DequeueSlotReady(t) ==
    /\ pc[t] = "d_seq"
    /\ DequeueDiff(t) = 0
    /\ pc' = [pc EXCEPT ![t] = "d_cas"]
    /\ UNCHANGED <<queueVars, pos, arg, val, last, histVars>>
    /\ UNCHANGED auxVars

\* DequeueEmpty with `else` in place of `else if (diff < 0)`
DequeueEmptyOnAnyMismatch(t) ==
    /\ pc[t] = "d_seq"
    /\ DequeueDiff(t) # 0
    /\ pc' = [pc EXCEPT ![t] = "idle"]
    /\ last' = [last EXCEPT ![t] = "empty"]
    /\ pos' = [pos EXCEPT ![t] = 0]
    /\ startAcc' = [startAcc EXCEPT ![t] = {}]
    /\ UNCHANGED <<queueVars, arg, val, calls, clears, epochBase, reserved,
                   accepted, taken>>
    /\ UNCHANGED auxVars

\* sequence load, diff < 0: return std::nullopt
DequeueEmpty(t) ==
    /\ pc[t] = "d_seq"
    /\ DequeueDiff(t) < 0
    /\ pc' = [pc EXCEPT ![t] = "idle"]
    /\ last' = [last EXCEPT ![t] = "empty"]
    /\ pos' = [pos EXCEPT ![t] = 0]
    /\ startAcc' = [startAcc EXCEPT ![t] = {}]
    /\ UNCHANGED <<queueVars, arg, val, calls, clears, epochBase, reserved,
                   accepted, taken>>
    /\ UNCHANGED auxVars

\* sequence load, diff > 0: go on to reload head_
DequeueBehind(t) ==
    /\ pc[t] = "d_seq"
    /\ DequeueDiff(t) > 0
    /\ pc' = [pc EXCEPT ![t] = "d_reload"]
    /\ UNCHANGED <<queueVars, pos, arg, val, last, histVars>>
    /\ UNCHANGED auxVars

\* pos = head_.load() of the diff > 0 branch
DequeueReload(t) ==
    /\ pc[t] = "d_reload"
    /\ pos' = [pos EXCEPT ![t] = head_]
    /\ pc' = [pc EXCEPT ![t] = "d_seq"]
    /\ UNCHANGED <<queueVars, arg, val, last, histVars>>
    /\ UNCHANGED auxVars

\* head_.compare_exchange_weak(pos, pos + 1) succeeds
DequeueCasWin(t) ==
    /\ pc[t] = "d_cas"
    /\ head_ = pos[t]
    /\ head_' = pos[t] + 1
    /\ taken' = Append(taken, InFlight)
    /\ pc' = [pc EXCEPT ![t] = "d_move"]
    /\ UNCHANGED <<phase, requested, static_capacity, capacity_, tail_,
                   sequence, value, pos, arg, val, last, calls, clears,
                   epochBase, reserved, accepted, startAcc>>
    /\ UNCHANGED auxVars

\* head_.compare_exchange_weak(pos, pos + 1) fails (head_ differs, or
\* spuriously): pos receives the value of head_, the loop goes round
DequeueCasFail(t) ==
    /\ pc[t] = "d_cas"
    /\ pos' = [pos EXCEPT ![t] = head_]
    /\ pc' = [pc EXCEPT ![t] = "d_seq"]
    /\ UNCHANGED <<queueVars, arg, val, last, histVars>>
    /\ UNCHANGED auxVars

\* DequeueMove reading the slot after the one of `pos`
DequeueMoveNextSlot(t) ==
    /\ pc[t] = "d_move"
    /\ val' = [val EXCEPT ![t] = value[buffer_at(pos[t] + 1)]]
    /\ pc' = [pc EXCEPT ![t] = "d_store"]
    /\ UNCHANGED <<queueVars, pos, arg, last, histVars>>
    /\ UNCHANGED auxVars

\* T value = std::move(slot.value); a moved-from int keeps its value
DequeueMove(t) ==
    /\ pc[t] = "d_move"
    /\ val' = [val EXCEPT ![t] = value[buffer_at(pos[t])]]
    /\ pc' = [pc EXCEPT ![t] = "d_store"]
    /\ UNCHANGED <<queueVars, pos, arg, last, histVars>>
    /\ UNCHANGED auxVars

\* slot.sequence.store(pos + capacity()); return value
DequeueRelease(t) ==
    /\ pc[t] = "d_store"
    /\ sequence' = [sequence EXCEPT ![buffer_at(pos[t])] = pos[t] + capacity]
    /\ taken' = [taken EXCEPT ![pos[t] + 1] = val[t]]
    /\ pc' = [pc EXCEPT ![t] = "idle"]
    /\ last' = [last EXCEPT ![t] = "value"]
    /\ pos' = [pos EXCEPT ![t] = 0]
    /\ val' = [val EXCEPT ![t] = DefaultT]
    /\ startAcc' = [startAcc EXCEPT ![t] = {}]
    /\ UNCHANGED <<phase, requested, static_capacity, capacity_, head_, tail_,
                   value, arg, calls, clears, epochBase, reserved,
                   accepted>>
    /\ UNCHANGED auxVars

\* ---- approx_size ---------------------------------------------------------

\* size_t holds 64 bits; the model reduces modulo 2^30, which no counter of
\* the model comes near
SizeModulus == 2 ^ 30

\* a difference of two size_t
SizeT(x) == x % SizeModulus

\* no thread other than t is inside enqueue or dequeue
OthersOutside(t) ==
    \A u \in Threads \ {t} : pc[u] \in {"idle", "s_head", "s_tail"}

\* size_t approx_size(): the call and one of its two loads.  The operands of
\* the subtraction are evaluated in either order; here tail_ is loaded first
\* and kept in `pos`
SizeStartTail(t) ==
    /\ phase = "ready"
    /\ pc[t] = "idle"
    /\ calls < budget
    /\ calls' = calls + 1
    /\ pos' = [pos EXCEPT ![t] = tail_]
    /\ pc' = [pc EXCEPT ![t] = "s_head"]
    /\ quiet' = [quiet EXCEPT ![t] = OthersOutside(t)]
    /\ UNCHANGED <<queueVars, arg, val, last, clears, epochBase, reserved,
                   accepted, taken, startAcc, budget, sizeOut, probe>>

\* approx_size(): the call, head_ loaded first and kept in `pos`
SizeStartHead(t) ==
    /\ phase = "ready"
    /\ pc[t] = "idle"
    /\ calls < budget
    /\ calls' = calls + 1
    /\ pos' = [pos EXCEPT ![t] = head_]
    /\ pc' = [pc EXCEPT ![t] = "s_tail"]
    /\ quiet' = [quiet EXCEPT ![t] = OthersOutside(t)]
    /\ UNCHANGED <<queueVars, arg, val, last, clears, epochBase, reserved,
                   accepted, taken, startAcc, budget, sizeOut, probe>>

\* approx_size(): head_.load(), the subtraction and the return
SizeReturnHead(t) ==
    /\ pc[t] = "s_head"
    /\ sizeOut' = SizeT(pos[t] - head_)
    /\ pc' = [pc EXCEPT ![t] = "idle"]
    /\ last' = [last EXCEPT ![t] = "size"]
    /\ pos' = [pos EXCEPT ![t] = 0]
    /\ quiet' = [quiet EXCEPT ![t] = FALSE]
    /\ UNCHANGED <<queueVars, arg, val, histVars, budget, probe>>

\* approx_size(): tail_.load(), the subtraction and the return
SizeReturnTail(t) ==
    /\ pc[t] = "s_tail"
    /\ sizeOut' = SizeT(tail_ - pos[t])
    /\ pc' = [pc EXCEPT ![t] = "idle"]
    /\ last' = [last EXCEPT ![t] = "size"]
    /\ pos' = [pos EXCEPT ![t] = 0]
    /\ quiet' = [quiet EXCEPT ![t] = FALSE]
    /\ UNCHANGED <<queueVars, arg, val, histVars, budget, probe>>

\* ---- thread_unsafe_clear -------------------------------------------------

\* ClearedSequence without the loop over the slots
ClearedSequenceNoLoop == sequence

\* Slot::sequence of every slot after the loop of thread_unsafe_clear:
\* buffer_at(i).sequence.store(i) for i = 0 .. capacity() - 1
ClearedSequence ==
    [s \in DOMAIN sequence |->
        IF \E i \in 0..(capacity - 1) : buffer_at(i) = s
        THEN CHOOSE i \in 0..(capacity - 1) : buffer_at(i) = s
        ELSE sequence[s]]

\* void thread_unsafe_clear(), called while no thread is inside a call
Clear ==
    /\ phase = "ready"
    /\ \A t \in Threads : pc[t] = "idle"
    /\ clears < MaxClears
    /\ head_' = 0
    /\ tail_' = 0
    /\ sequence' = ClearedSequence
    /\ clears' = clears + 1
    /\ epochBase' = calls
    /\ reserved' = <<>>
    /\ accepted' = {}
    /\ taken' = <<>>
    /\ UNCHANGED <<phase, requested, static_capacity, capacity_, value,
                   localVars, calls, startAcc>>
    /\ UNCHANGED auxVars

\* ---- specification -------------------------------------------------------

Step(t) ==
    \/ EnqueueStart(t)
    \/ EnqueueSlotFree(t)
    \/ EnqueueFull(t)
    \/ EnqueueBehind(t)
    \/ EnqueueReload(t)
    \/ EnqueueCasWin(t)
    \/ EnqueueCasFail(t)
    \/ EnqueueWrite(t)
    \/ EnqueuePublish(t)
    \/ DequeueStart(t)
    \/ DequeueSlotReady(t)
    \/ DequeueEmpty(t)
    \/ DequeueBehind(t)
    \/ DequeueReload(t)
    \/ DequeueCasWin(t)
    \/ DequeueCasFail(t)
    \/ DequeueMove(t)
    \/ DequeueRelease(t)

Next ==
    \/ \E c \in 0..MaxCap : ConstructDynamic(c)
    \/ \E c \in 1..MaxCap : ConstructStatic(c)
    \/ \E t \in Threads : Step(t)
    \/ Clear

Spec == Init /\ [][Next]_vars

\* a step of thread t inside approx_size
SizeStep(t) ==
    \/ SizeStartTail(t)
    \/ SizeStartHead(t)
    \/ SizeReturnHead(t)
    \/ SizeReturnTail(t)

\* enqueue, dequeue and thread_unsafe_clear together with approx_size
SizeNext ==
    \/ \E c \in 0..MaxCap : ConstructDynamic(c)
    \/ \E c \in 1..MaxCap : ConstructStatic(c)
    \/ \E t \in Threads : Step(t)
    \/ \E t \in Threads : SizeStep(t)
    \/ Clear

SizeSpec == Init /\ [][SizeNext]_vars

\* Slot& slot = buffer_at(pos) for a candidate position p
Probe(p) ==
    /\ phase = "ready"
    /\ probe' = <<p, buffer_at(p)>>
    /\ UNCHANGED <<queueVars, localVars, histVars, budget, quiet, sizeOut>>

\* queues of either variant and of every capacity up to MaxIndexCap, and
\* buffer_at applied to every candidate position up to MaxIndexPos
IndexNext ==
    \/ \E c \in 0..MaxIndexCap : ConstructDynamic(c)
    \/ \E c \in 1..MaxIndexCap : ConstructStatic(c)
    \/ \E p \in 0..MaxIndexPos : Probe(p)

\* no call of enqueue or dequeue is made
IndexInit == InitState /\ budget = 0

IndexSpec == IndexInit /\ [][IndexNext]_vars

\* the callers make MaxWrapCalls calls in all
WrapInit == InitState /\ budget = MaxWrapCalls

WrapSpec == WrapInit /\ [][Next]_vars

\* one thread makes MaxSeqCalls calls of enqueue and dequeue
SeqInit == InitState /\ budget = MaxSeqCalls

\* the steps of a lone caller: the diff > 0 branch of enqueue needs a stale
\* `pos`, which only another caller's tail_ increment produces
SeqStep(t) ==
    \/ EnqueueStart(t)
    \/ EnqueueSlotFree(t)
    \/ EnqueueFull(t)
    \/ EnqueueCasWin(t)
    \/ EnqueueCasFail(t)
    \/ EnqueueWrite(t)
    \/ EnqueuePublish(t)
    \/ DequeueStart(t)
    \/ DequeueSlotReady(t)
    \/ DequeueEmpty(t)
    \/ DequeueBehind(t)
    \/ DequeueReload(t)
    \/ DequeueCasWin(t)
    \/ DequeueCasFail(t)
    \/ DequeueMove(t)
    \/ DequeueRelease(t)

SeqNext ==
    \/ \E c \in 0..MaxCap : ConstructDynamic(c)
    \/ \E c \in 1..MaxCap : ConstructStatic(c)
    \/ SeqStep(1)

SeqSpec == SeqInit /\ [][SeqNext]_vars

\* a lone caller's enqueue never takes the diff > 0 branch
SeqEnqueueNeverBehind == \A t \in Threads : ~ ENABLED EnqueueBehind(t)

\* ---- histories read by the properties ------------------------------------

\* head positions (plus one) whose dequeue has returned
Returned == {i \in DOMAIN taken : taken[i] # InFlight}

\* the values dequeue calls have returned
ReturnedVals == {taken[i] : i \in Returned}

\* the tail position (plus one) at which value v was reserved
PosOf(v) == CHOOSE p \in DOMAIN reserved : reserved[p] = v

\* v was accepted at a position no dequeue has returned from yet, and is
\* still there: in its slot, or in the local of the dequeue that moved it out
Held(v) ==
    \E p \in DOMAIN reserved :
        /\ reserved[p] = v
        /\ p \notin Returned
        /\ \/ value[buffer_at(p - 1)] = v
           \/ \E t \in Threads :
                  pc[t] = "d_store" /\ pos[t] = p - 1 /\ val[t] = v

Idle == \A t \in Threads : pc[t] = "idle"

\* ---- C1 ------------------------------------------------------------------
\* C1: for every capacity >= 1 and every interleaving, no value is lost or
\* duplicated: the values dequeue calls have returned are pairwise distinct
\* and were all accepted, and every accepted value has either been returned
\* or is still held at its position for the dequeue of that position.
C1_NoLossNoDuplication ==
    /\ \A i, j \in Returned : i # j => taken[i] # taken[j]
    /\ \A i \in Returned : taken[i] \in accepted
    /\ \A v \in accepted : v \in ReturnedVals \/ Held(v)

\* ---- C2 ------------------------------------------------------------------
\* C2: values leave the queue in reservation order: of two values returned
\* by dequeue calls, the one whose dequeue won the earlier head position is
\* the one whose enqueue won the earlier tail position.
C2_ReservationOrder ==
    \A i, j \in Returned :
        (/\ i < j
         /\ taken[i] # taken[j]
         /\ \E p \in DOMAIN reserved : reserved[p] = taken[i]
         /\ \E p \in DOMAIN reserved : reserved[p] = taken[j])
        => PosOf(taken[i]) < PosOf(taken[j])

\* ---- C3 ------------------------------------------------------------------
\* C3: for every capacity >= 1, in every reachable state, head <= tail and
\* tail - head <= capacity.
C3_AtMostCapacity ==
    phase = "ready" => (head_ <= tail_ /\ tail_ - head_ <= capacity)

\* ---- C4 ------------------------------------------------------------------
\* C4: with capacity 1 the queue is a single-slot handoff: an enqueue wins
\* its reservation only when the slot is empty (every value reserved before
\* has been returned by a dequeue), so enqueue(5); enqueue(6) accepts 5 and
\* refuses 6.
C4_SingleSlotHandoff ==
    [][\A t \in Threads :
          (capacity = 1 /\ pc[t] = "e_cas" /\ pc'[t] = "e_write")
          => Len(reserved) = Cardinality(Returned)]_vars

\* ---- C5 ------------------------------------------------------------------
\* a step of thread t inside a call it has begun
InCallStep(t) ==
    \/ EnqueueSlotFree(t)
    \/ EnqueueFull(t)
    \/ EnqueueBehind(t)
    \/ EnqueueReload(t)
    \/ EnqueueCasWin(t)
    \/ EnqueueCasFail(t)
    \/ EnqueueWrite(t)
    \/ EnqueuePublish(t)
    \/ DequeueSlotReady(t)
    \/ DequeueEmpty(t)
    \/ DequeueBehind(t)
    \/ DequeueReload(t)
    \/ DequeueCasWin(t)
    \/ DequeueCasFail(t)
    \/ DequeueMove(t)
    \/ DequeueRelease(t)

\* Scheduling: a thread inside a call keeps taking steps (weak fairness of
\* its in-call steps), and compare_exchange_weak does not fail spuriously
\* for ever (strong fairness of the winning CAS).  Beginning a call is left
\* to the caller and is not forced.
LiveSpec ==
    /\ Init
    /\ [][Next]_vars
    /\ \A t \in Threads :
          /\ WF_vars(InCallStep(t))
          /\ SF_vars(EnqueueCasWin(t))
          /\ SF_vars(DequeueCasWin(t))

\* C5: every call of enqueue and of dequeue returns: a thread inside a call
\* that keeps taking steps leaves its retry loop, for every capacity >= 1.
C5_EveryCallReturns ==
    \A t \in Threads : (pc[t] # "idle") ~> (pc[t] = "idle")

\* ---- C6 ------------------------------------------------------------------
\* v was accepted and no dequeue has reserved its position yet
Unclaimed(v) ==
    \E p \in DOMAIN reserved : reserved[p] = v /\ p > head_

\* thread t returns std::nullopt in this step
ReturnsEmpty(t) == pc[t] = "d_seq" /\ pc'[t] = "idle"

\* thread t returns false from enqueue in this step
ReturnsFull(t) == pc[t] = "e_seq" /\ pc'[t] = "idle"

\* C6 as stated: once enqueue(v) has returned true, a dequeue that starts
\* afterwards while v has not been dequeued does not report empty.
C6_AcceptedIsVisible ==
    [][\A t \in Threads :
          ReturnsEmpty(t) => ~ \E v \in startAcc[t] : Unclaimed(v)]_vars

\* C6 amended: once enqueue(v) has returned true, a dequeue that starts
\* afterwards while v has not been dequeued reports empty only while the
\* slot of the head position carries no published value (its sequence is not
\* head + 1); from capacity 2 on that is while a producer that reserved the
\* head position has not yet published it.
C6_EmptyOnlyBehindUnpublished ==
    [][\A t \in Threads :
          (ReturnsEmpty(t) /\ \E v \in startAcc[t] : Unclaimed(v))
          => /\ sequence[buffer_at(head_)] # head_ + 1
             /\ capacity >= 2 =>
                   \E u \in Threads :
                       pc[u] \in {"e_write", "e_store"} /\ pos[u] = head_]_vars

\* a dequeue that began after an enqueue had returned true has reported empty
\* while the value of that enqueue was still in the queue
C6_Witness ==
    \E t \in Threads :
        /\ last[t] = "empty"
        /\ pc[t] = "idle"
        /\ \E v \in accepted : Unclaimed(v)
        /\ \E u \in Threads : pc[u] \in {"e_write", "e_store"} /\ pos[u] = head_

\* ---- C7 ------------------------------------------------------------------
\* C7 as stated: enqueue returns false only when tail - head = capacity.
C7_FalseOnlyWhenFull ==
    [][\A t \in Threads : ReturnsFull(t) => tail_ - head_ = capacity]_vars

\* C7 amended: enqueue returns false only when the slot of the current tail
\* position is not free for that position (its sequence differs from tail),
\* so that no enqueue could have reserved at that moment; tail - head may be
\* below capacity while a consumer has claimed a position and not released
\* its slot.
C7_FalseOnlyWhenTailSlotBusy ==
    [][\A t \in Threads :
          ReturnsFull(t) => sequence[buffer_at(tail_)] # tail_]_vars

\* an enqueue has returned false while tail - head was below the capacity,
\* a consumer being between its head CAS and its release-store
C7_Witness ==
    \E t, u \in Threads :
        /\ last[t] = "false"
        /\ pc[t] = "idle"
        /\ capacity >= 2
        /\ tail_ - head_ = capacity - 1
        /\ pc[u] \in {"d_move", "d_store"}
        /\ buffer_at(pos[u]) = buffer_at(tail_)

\* ---- C8 ------------------------------------------------------------------
\* thread t takes a step of a call that has not won its reservation CAS
\* (every return of false or of std::nullopt is such a step)
UnreservedStep(t) ==
    /\ pc'[t] # pc[t]
    /\ pc[t] \notin {"e_write", "e_store", "d_move", "d_store"}
    /\ pc'[t] \notin {"e_write", "d_move"}

\* thread t wins its reservation CAS in this step
ReservingStep(t) ==
    \/ pc[t] = "e_cas" /\ pc'[t] = "e_write"
    \/ pc[t] = "d_cas" /\ pc'[t] = "d_move"

\* thread t executes its release-store and returns successfully in this step
ReleasingStep(t) ==
    pc[t] \in {"e_store", "d_store"} /\ pc'[t] = "idle"

\* C8: a call that fails has no effect on head, tail, the sequences and the
\* values; a call that succeeds advances exactly one of head and tail by
\* one and advances the sequence of exactly one slot.
C8_AllOrNothing ==
    [][\A t \in Threads :
          /\ UnreservedStep(t) => UNCHANGED <<head_, tail_, sequence, value>>
          /\ ReservingStep(t) =>
                \/ tail_' = tail_ + 1 /\ head_' = head_
                \/ head_' = head_ + 1 /\ tail_' = tail_
          /\ ReleasingStep(t) =>
                \E i \in DOMAIN sequence :
                    /\ sequence'[i] > sequence[i]
                    /\ \A j \in DOMAIN sequence \ {i} :
                          sequence'[j] = sequence[j]]_vars

\* ---- C9 ------------------------------------------------------------------
\* C9: construction with capacity 0 fails and yields no queue; construction
\* with a capacity C >= 1 succeeds and yields head = tail = 0 and sequence i
\* in slot i for every i in 0..C-1.
C9_Construction ==
    [][(phase = "new" /\ phase' # "new") =>
          IF requested' = 0
          THEN phase' = "failed" /\ DOMAIN sequence' = {}
          ELSE /\ phase' = "ready"
               /\ capacity' = requested'
               /\ head_' = 0
               /\ tail_' = 0
               /\ DOMAIN sequence' = 0..(requested' - 1)
               /\ \A i \in 0..(requested' - 1) : sequence'[i] = i]_vars

\* construction with capacity 0 has thrown
C9_Witness ==
    phase = "failed" /\ requested = 0 /\ DOMAIN sequence = {}

\* construction with the largest capacity of the model has succeeded
C9_WitnessAccepted ==
    /\ phase = "ready"
    /\ requested = MaxCap
    /\ calls = 0
    /\ clears = 0
    /\ \A i \in 0..(MaxCap - 1) : sequence[i] = i

\* ---- C10 -----------------------------------------------------------------
\* C10: thread_unsafe_clear, called with no operation in flight, restores
\* head = tail = 0 and sequence i in slot i, the state the constructor
\* leaves; and no dequeue afterwards returns a value enqueued before it.
C10_ClearRestoresConstruction ==
    /\ [][clears' # clears =>
            /\ head_' = 0
            /\ tail_' = 0
            /\ sequence' = InitialSequence(capacity)]_vars
    /\ [](\A i \in Returned : taken[i] > epochBase)

\* after enqueues and a clear that left a value of before in a slot, an
\* enqueue and a dequeue have gone through
C10_Witness ==
    /\ clears = 1
    /\ epochBase > 0
    /\ \E i \in DOMAIN value : value[i] # DefaultT /\ value[i] <= epochBase
    /\ Returned # {}
    /\ \E t \in Threads : last[t] = "empty"

\* ---- C11 -----------------------------------------------------------------
\* thread t returns from approx_size in this step
ReturnsSize(t) == pc[t] \in {"s_head", "s_tail"} /\ pc'[t] = "idle"

\* C11: an approx_size call during which no enqueue or dequeue is in flight
\* returns exactly the number of values accepted and not yet returned by a
\* dequeue, and changes neither head, tail, a sequence nor a value.
C11_SizeIsExactWhenQuiet ==
    [][\A t \in Threads :
          (ReturnsSize(t) /\ quiet[t]) =>
              /\ sizeOut' = Cardinality(accepted \ ReturnedVals)
              /\ UNCHANGED <<head_, tail_, sequence, value>>]_vars

\* ---- C12 -----------------------------------------------------------------
\* thread t is between its winning reservation CAS and its release-store
Owns(t) == pc[t] \in {"e_write", "e_store", "d_move", "d_store"}

\* the enqueue that reserved position p has executed its release-store
Published(p) ==
    /\ p + 1 \in DOMAIN reserved
    /\ reserved[p + 1] \in accepted

\* the dequeue that reserved position p has executed its release-store
Released(p) == p + 1 \in Returned

\* C12: a slot is owned by at most one thread at any instant; no consumer
\* is in its owned region before the producer of its position has published
\* and no producer is in its owned region before the consumer of the
\* previous generation of its slot has released it.
C12_ExclusiveOwnership ==
    /\ \A t, u \in Threads :
          (t # u /\ Owns(t) /\ Owns(u))
          => buffer_at(pos[t]) # buffer_at(pos[u])
    /\ \A t \in Threads :
          pc[t] \in {"d_move", "d_store"} => Published(pos[t])
    /\ \A t \in Threads :
          (pc[t] \in {"e_write", "e_store"} /\ pos[t] >= capacity)
          => Released(pos[t] - capacity)

\* ---- C13 -----------------------------------------------------------------
\* the sequence of slot i has the form i + k * capacity
FreeForm(i) ==
    \E k \in 0..(calls + 1) : sequence[i] = i + k * capacity

\* the sequence of slot i has the form i + k * capacity + 1
FullForm(i) ==
    \E k \in 0..(calls + 1) : sequence[i] = i + k * capacity + 1

\* slot i holds a value that was accepted and whose dequeue has not released
Occupied(i) ==
    \E p \in DOMAIN reserved :
        /\ buffer_at(p - 1) = i
        /\ reserved[p] \in accepted
        /\ p \notin Returned

\* C13: the sequence of slot i is i + k * capacity (free) or
\* i + k * capacity + 1 (full) for some k >= 0, and it is of the free form
\* exactly when no accepted, not yet released value occupies the slot.
C13_SequenceShape ==
    phase = "ready" =>
        \A i \in DOMAIN sequence :
            /\ FreeForm(i) \/ FullForm(i)
            /\ FreeForm(i) <=> ~ Occupied(i)

\* ---- C14 -----------------------------------------------------------------
\* C14: every position is reserved by at most one enqueue and by at most
\* one dequeue; never more positions are reserved and not yet released than
\* there are slots, and the values drained are values of winning enqueues.
C14_UniqueReservation ==
    /\ \A t, u \in Threads :
          (t # u /\ pc[t] \in {"e_write", "e_store"}
                 /\ pc[u] \in {"e_write", "e_store"}) => pos[t] # pos[u]
    /\ \A t, u \in Threads :
          (t # u /\ pc[t] \in {"d_move", "d_store"}
                 /\ pc[u] \in {"d_move", "d_store"}) => pos[t] # pos[u]
    /\ Len(reserved) = tail_
    /\ Len(taken) = head_
    /\ \A p, q \in DOMAIN reserved : p # q => reserved[p] # reserved[q]
    /\ Cardinality(DOMAIN reserved \ Returned) <= capacity
    /\ \A v \in ReturnedVals : \E p \in DOMAIN reserved : reserved[p] = v

\* ---- C15 -----------------------------------------------------------------
\* C15: whenever dequeue returns empty, the position it examined is the
\* current head and the producer of that position has not executed its
\* release-store.
C15_EmptyOnlyAtUnpublishedHead ==
    [][\A t \in Threads :
          ReturnsEmpty(t) => (pos[t] = head_ /\ ~ Published(pos[t]))]_vars

\* ---- C16 -----------------------------------------------------------------
\* C16: whenever a thread goes round its loop again, on diff > 0 or on a
\* CAS that failed because the counter had moved, another thread's CAS has
\* advanced the counter past the candidate position, and the candidate the
\* thread goes on with is strictly greater than its old one.
C16_RetryMeansProgress ==
    [][\A t \in Threads :
          /\ (pc[t] = "e_seq" /\ pc'[t] = "e_reload") => tail_ > pos[t]
          /\ (pc[t] = "d_seq" /\ pc'[t] = "d_reload") => head_ > pos[t]
          /\ (pc[t] = "e_reload" /\ pc'[t] = "e_seq") => pos'[t] > pos[t]
          /\ (pc[t] = "d_reload" /\ pc'[t] = "d_seq") => pos'[t] > pos[t]
          /\ (pc[t] = "e_cas" /\ pc'[t] = "e_seq" /\ tail_ # pos[t])
                => pos'[t] > pos[t]
          /\ (pc[t] = "d_cas" /\ pc'[t] = "d_seq" /\ head_ # pos[t])
                => pos'[t] > pos[t]]_vars

\* ---- C17 -----------------------------------------------------------------
\* the powers of two among the capacities probed
PowersOfTwo == {2 ^ k : k \in 0..MaxIndexCap} \cap 1..MaxIndexCap

\* C17: for every power-of-two capacity and every candidate position, the
\* slot the static-capacity queue selects (pos & (C - 1)) is pos mod C, the
\* slot the dynamic-capacity queue selects.
C17_MaskIsModulo ==
    (phase = "ready" /\ static_capacity \in PowersOfTwo)
    => probe[2] = probe[1] % static_capacity

\* a position several laps past the first wrap has been probed in a
\* static-capacity queue of 4 or more slots
C17_Witness ==
    /\ phase = "ready"
    /\ static_capacity \in PowersOfTwo
    /\ static_capacity >= 4
    /\ probe[1] >= 5 * static_capacity
    /\ probe[2] = static_capacity - 1

\* ---- C18 -----------------------------------------------------------------
\* C18: for capacity >= 2 the dequeue that wins head position p returns the
\* value of the enqueue that won tail position p, for every p.
C18_PositionsMatch ==
    capacity >= 2 =>
        /\ \A i \in Returned : taken[i] = reserved[i]
        /\ \A t \in Threads :
              pc[t] = "d_store" => val[t] = reserved[pos[t] + 1]

\* with two slots, the dequeue of position 2 (the second use of slot 0) has
\* returned while another call was in flight
C18_Witness ==
    /\ capacity = 2
    /\ 3 \in Returned
    /\ taken[3] = reserved[3]
    /\ \E t \in Threads : pc[t] # "idle"

\* ---- C19 -----------------------------------------------------------------
\* the content of the reference FIFO: the values accepted and not yet
\* returned; the older value is the one of the earlier call
HeldRef == accepted \ ReturnedVals

\* C19: for capacity >= 2 in single-threaded use, enqueue returns true
\* exactly when fewer than C values are held and false exactly when C are
\* held, dequeue returns the oldest held value exactly when one is held and
\* empty exactly when none is held.
C19_RefinesBoundedFifo ==
    [][\A t \in Threads :
          capacity >= 2 =>
              /\ (pc[t] = "e_store" /\ pc'[t] = "idle")
                    => Cardinality(HeldRef) < capacity
              /\ ReturnsFull(t) => Cardinality(HeldRef) = capacity
              /\ (pc[t] = "d_store" /\ pc'[t] = "idle")
                    => /\ val[t] \in HeldRef
                       /\ \A v \in HeldRef : val[t] <= v
              /\ ReturnsEmpty(t) => HeldRef = {}]_vars

\* with two slots, a dequeue has returned empty after the positions have
\* gone round the slots twice
C19_Witness ==
    /\ capacity = 2
    /\ head_ >= 4
    /\ tail_ = head_
    /\ \E t \in Threads : last[t] = "empty" /\ pc[t] = "idle"

====
